---- MODULE Spec2Model ----
(***************************************************************************)
(* Model of the LFU cache of src/src/lib.rs.                               *)
(*                                                                         *)
(* The cache is the struct LFU: a map items from keys to payloads, a list  *)
(* of frequency buckets frequency_list (bucket i, counted from 0, holds    *)
(* the keys of frequency i), the cap max_size and the running byte counter *)
(* current_size.  Every method is an operator from the struct (a record)   *)
(* to the struct after the call and the returned value; every public       *)
(* method is an action that installs the struct its operator computes.     *)
(* A property of a method is stated over the reachable states: for every   *)
(* reachable struct and every argument, the operator's result.             *)
(***************************************************************************)
EXTENDS Integers, Sequences, FiniteSets, TLC

VARIABLES items, frequency_list, max_size, current_size, phase, panicked, got

vars == <<items, frequency_list, max_size, current_size, phase, panicked, got>>

(* ---------------- bounds of the exploration ---------------- *)

NumKeys == 2
MaxLen == 2
MaxMaxSize == 2
MaxCurrentSize == 3
MaxBuckets == 3

(* ---------------- program constants ---------------- *)

DefaultMaxSize == 64

(* ---------------- values ---------------- *)

KeyNames == <<"a", "b", "c", "d", "e", "f">>

Keys == {KeyNames[i] : i \in 1..NumKeys}

(* The bytes of a payload.  The cache never reads them, it only takes the  *)
(* length of a payload, so payloads differ by their length alone.          *)
ByteValues == {"x"}

Payloads == UNION {[1..n -> ByteValues] : n \in 0..MaxLen}

None == <<>>

Some(x) == <<x>>

(* The struct as a record. *)
Self ==
  [items |-> items, frequency_list |-> frequency_list,
   max_size |-> max_size, current_size |-> current_size]

Range(s) == {s[i] : i \in 1..Len(s)}

RECURSIVE Flatten(_)
Flatten(lists) ==
  IF lists = <<>> THEN <<>> ELSE Head(lists) \o Flatten(Tail(lists))

RECURSIVE StoredBytes(_)
StoredBytes(its) ==
  IF DOMAIN its = {} THEN 0
  ELSE LET k == CHOOSE x \in DOMAIN its : TRUE
       IN Len(its[k]) + StoredBytes([j \in DOMAIN its \ {k} |-> its[j]])

(* ---------------- the methods ---------------- *)

(* LFU::new *)
new ==
  [items |-> <<>>, frequency_list |-> <<>>,
   max_size |-> DefaultMaxSize, current_size |-> 0]

(* LFU::max_size, the builder *)
set_max_size(self, size) == [self EXCEPT !.max_size = size]

(* get_frequency without the push of line 68: an empty list of buckets    *)
(* stays empty and 0 is returned.                                          *)
get_frequency_no_push(self, key) ==
  LET hits == {i \in 1..Len(self.frequency_list) :
                 key \in Range(self.frequency_list[i])}
  IN IF hits # {}
     THEN [self |-> self,
           ret |-> (CHOOSE i \in hits : \A j \in hits : i <= j) - 1]
     ELSE [self |-> self, ret |-> 0]

(* LFU::get_frequency: the index of the first bucket that lists the key,   *)
(* 0 when none does; an empty list of buckets gets its bucket 0.           *)
get_frequency(self, key) ==
  IF self.frequency_list = <<>>
  THEN [self |-> [self EXCEPT !.frequency_list = <<(<<>>)>>], ret |-> 0]
  ELSE LET hits == {i \in 1..Len(self.frequency_list) :
                      key \in Range(self.frequency_list[i])}
       IN IF hits # {}
          THEN [self |-> self,
                ret |-> (CHOOSE i \in hits : \A j \in hits : i <= j) - 1]
          ELSE [self |-> self, ret |-> 0]

(* increment_frequency without the retain of line 86: the key is pushed on *)
(* the next bucket and stays listed in its old one.                        *)
increment_frequency_no_retain(self, key) ==
  LET r == get_frequency(self, key)
      key_frequency == r.ret
      fl == r.self.frequency_list
      key_list == fl[key_frequency + 1]
  IN IF key \notin Range(key_list)
     THEN [r.self EXCEPT !.frequency_list =
             [fl EXCEPT ![key_frequency + 1] = Append(key_list, key)]]
     ELSE IF key_frequency + 2 > Len(fl)
          THEN [r.self EXCEPT !.frequency_list = Append(fl, <<key>>)]
          ELSE [r.self EXCEPT !.frequency_list =
                  [fl EXCEPT ![key_frequency + 2] = Append(@, key)]]

(* LFU::increment_frequency *)
increment_frequency(self, key) ==
  LET r == get_frequency(self, key)
      key_frequency == r.ret
      fl == r.self.frequency_list
      key_list == fl[key_frequency + 1]
  IN IF key \notin Range(key_list)
     THEN [r.self EXCEPT !.frequency_list =
             [fl EXCEPT ![key_frequency + 1] = Append(key_list, key)]]
     ELSE LET retained == SelectSeq(key_list, LAMBDA lkey : lkey # key)
              fl1 == [fl EXCEPT ![key_frequency + 1] = retained]
          IN IF key_frequency + 2 > Len(fl1)
             THEN [r.self EXCEPT !.frequency_list = Append(fl1, <<key>>)]
             ELSE [r.self EXCEPT !.frequency_list =
                     [fl1 EXCEPT ![key_frequency + 2] = Append(@, key)]]

(* zero_frequency without the retain of line 100: the key stays listed in  *)
(* the bucket it had reached.                                              *)
zero_frequency_no_retain(self, key) ==
  LET r == get_frequency(self, key)
      key_frequency == r.ret
      fl == r.self.frequency_list
  IN IF key_frequency # 0
     THEN IF key_frequency + 1 <= Len(fl)
          THEN [self |-> r.self, panic |-> FALSE]
          ELSE [self |-> r.self, panic |-> TRUE]
     ELSE [self |-> r.self, panic |-> FALSE]

(* LFU::zero_frequency; panic is TRUE when the call panics *)
zero_frequency(self, key) ==
  LET r == get_frequency(self, key)
      key_frequency == r.ret
      fl == r.self.frequency_list
  IN IF key_frequency # 0
     THEN IF key_frequency + 1 <= Len(fl)
          THEN [self |-> [r.self EXCEPT !.frequency_list =
                            [fl EXCEPT ![key_frequency + 1] =
                               SelectSeq(@, LAMBDA lkey : lkey # key)]],
                panic |-> FALSE]
          ELSE [self |-> r.self, panic |-> TRUE]
     ELSE [self |-> r.self, panic |-> FALSE]

(* get without the early return of lines 119-121: the frequency of the key *)
(* is incremented whether or not items holds it.                           *)
get_no_early_return(self, key) ==
  [self |-> increment_frequency(self, key),
   ret |-> IF key \in DOMAIN self.items THEN Some(self.items[key]) ELSE None]

(* LFU::get *)
get(self, key) ==
  IF key \notin DOMAIN self.items
  THEN [self |-> self, ret |-> None]
  ELSE [self |-> increment_frequency(self, key),
        ret |-> Some(self.items[key])]

(* The loops of LFU::evict over the keys of the buckets, in bucket order.  *)
RECURSIVE evict_keys(_, _, _, _)
evict_keys(its, keys, space_freed, space_needed) ==
  IF keys = <<>>
  THEN [items |-> its, ret |-> None]
  ELSE LET key == Head(keys)
       IN IF key \in DOMAIN its
          THEN LET freed == space_freed + Len(its[key])
                   removed == [k \in DOMAIN its \ {key} |-> its[k]]
               IN IF freed >= space_needed
                  THEN [items |-> removed, ret |-> Some(freed)]
                  ELSE evict_keys(removed, Tail(keys), freed, space_needed)
          ELSE evict_keys(its, Tail(keys), space_freed, space_needed)

(* evict that walks the keys of items instead of the keys the buckets     *)
(* list.                                                                   *)
evict_walks_items(self, space_needed) ==
  LET keys == SelectSeq(KeyNames, LAMBDA k : k \in DOMAIN self.items)
      r == evict_keys(self.items, keys, 0, space_needed)
  IN [self |-> [self EXCEPT !.items = r.items], ret |-> r.ret]

(* LFU::evict *)
evict(self, space_needed) ==
  LET r == evict_keys(self.items, Flatten(self.frequency_list), 0, space_needed)
  IN [self |-> [self EXCEPT !.items = r.items], ret |-> r.ret]

(* LFU::insert_raw; stored is TRUE when the payload went into items *)
insert_raw(self, key, value) ==
  LET z == zero_frequency(self, key)
      old == IF key \in DOMAIN z.self.items THEN Some(z.self.items[key]) ELSE None
  IN IF z.panic
     THEN [self |-> z.self, ret |-> None, stored |-> FALSE, panic |-> TRUE]
     ELSE [self |-> [z.self EXCEPT
                       !.current_size = @ + Len(value),
                       !.items = [k \in DOMAIN @ \cup {key} |->
                                    IF k = key THEN value ELSE @[k]]],
           ret |-> old, stored |-> TRUE, panic |-> FALSE]

(* insert whose test of line 136 leaves out value.len(): the payload is    *)
(* stored without eviction whenever current_size is below max_size.       *)
insert_ignores_incoming(self, key, value) ==
  IF self.current_size >= self.max_size
  THEN LET e == evict(self, Len(value))
       IN IF e.ret # None /\ e.ret[1] >= Len(value)
          THEN insert_raw(e.self, key, value)
          ELSE [self |-> e.self, ret |-> None, stored |-> FALSE, panic |-> FALSE]
  ELSE insert_raw(self, key, value)

(* LFU::insert *)
insert(self, key, value) ==
  IF self.current_size + Len(value) >= self.max_size
  THEN LET e == evict(self, Len(value))
       IN IF e.ret # None /\ e.ret[1] >= Len(value)
          THEN insert_raw(e.self, key, value)
          ELSE [self |-> e.self, ret |-> None, stored |-> FALSE, panic |-> FALSE]
  ELSE insert_raw(self, key, value)

(* ---------------- the state machine ---------------- *)

Install(self) ==
  /\ items' = self.items
  /\ frequency_list' = self.frequency_list
  /\ max_size' = self.max_size
  /\ current_size' = self.current_size

(* let lfu = LFU::new().  got is the set of the keys for which a get has   *)
(* returned Some since then.                                               *)
Init ==
  /\ items = new.items
  /\ frequency_list = new.frequency_list
  /\ max_size = new.max_size
  /\ current_size = new.current_size
  /\ phase = "building"
  /\ panicked = FALSE
  /\ got = {}

(* LFU::new().max_size(size): the builder, chained on the constructor      *)
(* before the cache is put to use.                                         *)
MaxSize ==
  \E size \in 0..MaxMaxSize :
    /\ ~panicked
    /\ phase = "building"
    /\ Install(set_max_size(Self, size))
    /\ UNCHANGED <<phase, panicked, got>>

GetFrequency ==
  \E key \in Keys :
    LET r == get_frequency(Self, key)
    IN /\ ~panicked
       /\ Install(r.self)
       /\ phase' = "serving"
       /\ UNCHANGED <<panicked, got>>

Get ==
  \E key \in Keys :
    LET r == get(Self, key)
    IN /\ ~panicked
       /\ Len(r.self.frequency_list) <= MaxBuckets
       /\ Install(r.self)
       /\ phase' = "serving"
       /\ got' = IF r.ret # None THEN got \cup {key} ELSE got
       /\ UNCHANGED panicked

Insert ==
  \E key \in Keys, value \in Payloads :
    LET r == insert(Self, key, value)
    IN /\ ~panicked
       /\ r.self.current_size <= MaxCurrentSize
       /\ Install(r.self)
       /\ phase' = "serving"
       /\ panicked' = r.panic
       /\ UNCHANGED got

Next == MaxSize \/ GetFrequency \/ Get \/ Insert

Spec == Init /\ [][Next]_vars

(* ---------------- observations used by the properties ---------------- *)

(* The value get_frequency(key) returns in the state self. *)
Freq(self, key) == get_frequency(self, key).ret

(* The key is listed in some bucket of the state self. *)
Listed(self, key) == key \in Range(Flatten(self.frequency_list))

(* The key is listed in bucket 0 of the state self. *)
InBucket0(self, key) ==
  self.frequency_list # <<>> /\ key \in Range(self.frequency_list[1])

(* The state after n successive calls get(key). *)
RECURSIVE GetN(_, _, _)
GetN(self, key, n) ==
  IF n = 0 THEN self ELSE GetN(get(self, key).self, key, n - 1)

(* items as the eviction pass of insert(key, value) leaves it, before the  *)
(* payload is stored.                                                      *)
AfterEvictionPass(self, value) ==
  IF self.current_size + Len(value) >= self.max_size
  THEN evict(self, Len(value)).self.items
  ELSE self.items

(* ---------------- C1 ---------------- *)

(* C1: after every public operation the byte counter current_size equals   *)
(* the sum of the lengths of the payloads stored in items.                 *)
C1_SizeIsStoredBytes == current_size = StoredBytes(items)

(* ---------------- C2 ---------------- *)

(* C2: with max_size fixed before the first insert, after every public     *)
(* operation current_size <= max_size.                                     *)
C2_SizeWithinMax == current_size <= max_size

(* ---------------- C3 ---------------- *)

(* C3: in any reachable state, for any key k and payload v with            *)
(* len(v) <= max_size, insert(k, v) stores v, so that a get(k) issued      *)
(* immediately afterwards returns Some(v).                                 *)
C3_RoundTrip ==
  \A k \in Keys : \A v \in Payloads :
    Len(v) <= max_size
      => LET r == insert(Self, k, v)
         IN r.stored /\ get(r.self, k).ret = Some(v)

(* ---------------- C4 ---------------- *)

(* C4: whenever an insert evicts an entry k, no entry still in the cache   *)
(* after the eviction pass had a get_frequency strictly lower than that of *)
(* k when k was evicted.                                                   *)
C4_EvictsLeastFrequent ==
  \A v \in Payloads :
    LET kept == DOMAIN AfterEvictionPass(Self, v)
        evicted == DOMAIN items \ kept
    IN \A k \in evicted : \A j \in kept : Freq(Self, j) >= Freq(Self, k)

(* ---------------- C5 ---------------- *)

(* C5: from any reachable state, for payloads v1, v2 of length <= max_size *)
(* the sequence insert(k, v1); insert(k, v2); get(k) returns Some(v2).     *)
C5_Overwrite ==
  \A k \in Keys : \A v1, v2 \in Payloads :
    (Len(v1) <= max_size /\ Len(v2) <= max_size)
      => LET s1 == insert(Self, k, v1).self
             s2 == insert(s1, k, v2).self
         IN get(s2, k).ret = Some(v2)

(* ---------------- C6 ---------------- *)

(* C6: an insert whose payload is longer than max_size stores nothing and  *)
(* leaves items, current_size and the frequency buckets as they were.      *)
C6_OversizedLeavesState ==
  \A k \in Keys : \A v \in Payloads :
    Len(v) > max_size
      => LET r == insert(Self, k, v)
         IN /\ ~r.stored
            /\ r.self.items = items
            /\ r.self.current_size = current_size
            /\ r.self.frequency_list = frequency_list

(* ---------------- C7 ---------------- *)

(* C7 as stated: every get(k) that returns Some raises get_frequency(k) by *)
(* exactly one and changes the frequency of no other key.                  *)
C7_GetRaisesByOne ==
  \A k \in Keys :
    LET r == get(Self, k)
    IN r.ret # None
         => /\ Freq(r.self, k) = Freq(Self, k) + 1
            /\ \A j \in Keys \ {k} : Freq(r.self, j) = Freq(Self, j)

(* C7 amended: a get(k) that returns Some raises get_frequency(k) by       *)
(* exactly one when k is listed in a frequency bucket, and leaves it at 0  *)
(* (filing k in bucket 0) when k is listed in none; the frequency of no    *)
(* other key changes.                                                      *)
C7_GetRaisesListedKeyByOne ==
  \A k \in Keys :
    LET r == get(Self, k)
    IN r.ret # None
         => /\ Listed(Self, k) => Freq(r.self, k) = Freq(Self, k) + 1
            /\ ~Listed(Self, k)
                 => /\ Freq(Self, k) = 0
                    /\ Freq(r.self, k) = 0
                    /\ InBucket0(r.self, k)
            /\ \A j \in Keys \ {k} : Freq(r.self, j) = Freq(Self, j)

(* Successful gets have taken one stored key to frequency 2, past another  *)
(* stored key that sits in a lower bucket, and a get of it returns Some.   *)
C7_Witness ==
  \E k \in DOMAIN items :
    /\ Freq(Self, k) = 2
    /\ get(Self, k).ret # None
    /\ \E j \in DOMAIN items \ {k} : Listed(Self, j)

(* ---------------- C8 ---------------- *)

(* C8: in any reachable state, once insert(k, v) has stored k,             *)
(* get_frequency(k) is 0, and after n >= 1 successful get(k) calls that    *)
(* follow it is n - 1.                                                     *)
C8_CountsGetsSinceInsert ==
  \A k \in Keys : \A v \in Payloads :
    LET r == insert(Self, k, v)
    IN r.stored
         => /\ Freq(r.self, k) = 0
            /\ \A n \in 1..MaxBuckets : Freq(GetN(r.self, k, n), k) = n - 1

(* ---------------- C9 ---------------- *)

(* C9 as stated: a key that insert has just stored as a new entry has      *)
(* get_frequency 1, and 2 after one successful get.                        *)
C9_NewEntryStartsAtOne ==
  \A k \in Keys \ DOMAIN items : \A v \in Payloads :
    LET r == insert(Self, k, v)
    IN r.stored
         => /\ Freq(r.self, k) = 1
            /\ Freq(get(r.self, k).self, k) = 2

(* C9 amended: a key that insert has just stored as a new entry has        *)
(* get_frequency 0; one successful get later it is still 0 when the key    *)
(* was listed in no bucket and 1 when the key was still listed in          *)
(* bucket 0.                                                               *)
C9_NewEntryStartsAtZero ==
  \A k \in Keys \ DOMAIN items : \A v \in Payloads :
    LET r == insert(Self, k, v)
    IN r.stored
         => /\ Freq(r.self, k) = 0
            /\ get(r.self, k).ret = Some(v)
            /\ Freq(get(r.self, k).self, k)
                 = IF InBucket0(r.self, k) THEN 1 ELSE 0

(* A key that was evicted while it sat in a bucket above bucket 0 is       *)
(* stored again, as a new entry, by an insert the cache accepts.           *)
C9_Witness ==
  \E k \in Keys \ DOMAIN items : \E v \in Payloads :
    LET r == insert(Self, k, v)
    IN /\ Freq(Self, k) >= 1
       /\ r.stored
       /\ r.self.current_size <= MaxCurrentSize
       /\ k \in DOMAIN r.self.items

(* ---------------- C10 ---------------- *)

(* C10: get_frequency(k) is 0 for every key k that is not in items.        *)
C10_AbsentKeyHasFrequencyZero ==
  \A k \in Keys \ DOMAIN items : Freq(Self, k) = 0

(* ---------------- C11 ---------------- *)

(* C11: get(k) on a key that is not in items returns None and leaves       *)
(* items, current_size, max_size and the frequency buckets as they were.   *)
C11_GetOfAbsentKeyIsNoOp ==
  \A k \in Keys \ DOMAIN items :
    LET r == get(Self, k)
    IN /\ r.ret = None
       /\ r.self.items = items
       /\ r.self.current_size = current_size
       /\ r.self.max_size = max_size
       /\ r.self.frequency_list = frequency_list

(* The cache is in use, holds an entry, and a key that is not in items is  *)
(* still listed in a bucket: a get of that key returns None.               *)
C11_Witness ==
  /\ phase = "serving"
  /\ items # <<>>
  /\ \E k \in Keys \ DOMAIN items :
       Listed(Self, k) /\ get(Self, k).ret = None

(* ---------------- C12 ---------------- *)

(* C12 as stated: an insert(k, v2) that replaces the payload of a key k    *)
(* already in items leaves get_frequency(k) as it was before the call.     *)
C12_ReplacePreservesFrequency ==
  \A k \in DOMAIN items : \A v \in Payloads :
    LET r == insert(Self, k, v)
    IN r.stored => Freq(r.self, k) = Freq(Self, k)

(* C12 amended: an insert(k, v2) that replaces the payload of a key k      *)
(* already in items resets the frequency of k: get_frequency(k) right      *)
(* after the call is 0, whatever it was before.                            *)
C12_ReplaceZeroesFrequency ==
  \A k \in DOMAIN items : \A v \in Payloads :
    LET r == insert(Self, k, v)
    IN r.stored => Freq(r.self, k) = 0

(* A key of items that gets have taken above bucket 0 has its payload      *)
(* replaced by an insert the cache accepts.                                *)
C12_Witness ==
  \E k \in DOMAIN items : \E v \in Payloads :
    LET r == insert(Self, k, v)
    IN /\ Freq(Self, k) >= 1
       /\ r.stored
       /\ r.self.current_size <= MaxCurrentSize
       /\ r.self.items[k] = v

(* ---------------- C13 ---------------- *)

(* C13: when insert(k0, v) is called for a key k0 that is in items, the    *)
(* eviction pass of that insert does not remove k0, and k0 is in items     *)
(* when the call returns, whatever len(v) is.                              *)
C13_UpdatedKeyIsNotEvicted ==
  \A k0 \in DOMAIN items : \A v \in Payloads :
    /\ k0 \in DOMAIN AfterEvictionPass(Self, v)
    /\ k0 \in DOMAIN insert(Self, k0, v).self.items

(* ---------------- C14 ---------------- *)

(* C14: insert(k, v) returns Some(old), old the payload stored under k     *)
(* just before the call, whenever k was in items, and None whenever k was  *)
(* not in items.                                                           *)
C14_InsertReturnsPreviousPayload ==
  \A k \in Keys : \A v \in Payloads :
    insert(Self, k, v).ret =
      IF k \in DOMAIN items THEN Some(items[k]) ELSE None

(* ---------------- C15 ---------------- *)

(* C15: if k is not in items and current_size + len(v) <= max_size,        *)
(* equality included, insert(k, v) stores the entry and evicts nothing.    *)
C15_ExactFitIsStored ==
  \A k \in Keys \ DOMAIN items : \A v \in Payloads :
    current_size + Len(v) <= max_size
      => LET r == insert(Self, k, v)
         IN /\ r.stored
            /\ DOMAIN r.self.items = DOMAIN items \cup {k}
            /\ r.self.items[k] = v
            /\ \A j \in DOMAIN items : r.self.items[j] = items[j]

(* ---------------- C16 ---------------- *)

(* C16: after every public operation the keys listed in the frequency      *)
(* buckets are exactly the keys of items, each of them in exactly one      *)
(* bucket.                                                                 *)
C16_BucketsListExactlyItems ==
  /\ Range(Flatten(frequency_list)) = DOMAIN items
  /\ \A k \in DOMAIN items :
       Cardinality({i \in 1..Len(frequency_list) :
                      k \in Range(frequency_list[i])}) = 1

(* ---------------- C17 ---------------- *)

(* C17: with max_size fixed before the first insert, the total length of   *)
(* the payloads stored in items is <= max_size after every public          *)
(* operation, whatever the value of the counter current_size.              *)
C17_StoredBytesWithinMax == StoredBytes(items) <= max_size

(* The counter has run past max_size while items holds payload bytes.      *)
C17_Witness ==
  /\ current_size > max_size
  /\ StoredBytes(items) >= 1
  /\ StoredBytes(items) < current_size

(* ---------------- C18 ---------------- *)

(* C18: a key of items for which no get has ever returned Some is listed   *)
(* in no bucket and is never evicted: it is still in items after any       *)
(* insert, however much space that insert needs.                           *)
C18_UnreadKeyIsNeverEvicted ==
  \A k \in DOMAIN items \ got :
    /\ ~Listed(Self, k)
    /\ \A k2 \in Keys : \A v \in Payloads :
         /\ k \in DOMAIN AfterEvictionPass(Self, v)
         /\ k \in DOMAIN insert(Self, k2, v).self.items

(* An insert evicts an entry of the cache while a key that no get has      *)
(* ever returned stays in items.                                           *)
C18_Witness ==
  \E k \in DOMAIN items \ got : \E k2 \in Keys : \E v \in Payloads :
    LET r == insert(Self, k2, v)
    IN /\ DOMAIN AfterEvictionPass(Self, v) # DOMAIN items
       /\ r.self.current_size <= MaxCurrentSize
       /\ k \in DOMAIN r.self.items

(* ---------------- C19 ---------------- *)

(* C19: no sequence of public calls reaches a fatal failure: no call has   *)
(* panicked, no insert panics in zero_frequency, and the index             *)
(* get_frequency returns, which increment_frequency uses on                *)
(* frequency_list, is within the list get_frequency leaves.                *)
C19_NoFatalFailure ==
  /\ ~panicked
  /\ \A k \in Keys :
       LET r == get_frequency(Self, k)
       IN /\ r.ret >= 0
          /\ r.ret + 1 <= Len(r.self.frequency_list)
          /\ \A v \in Payloads : ~insert(Self, k, v).panic

(* A key sits in the last bucket of the list, and an insert of that key,   *)
(* which runs zero_frequency on a frequency above 0, is stored.            *)
C19_Witness ==
  /\ phase = "serving"
  /\ \E k \in Keys : \E v \in Payloads :
       LET r == insert(Self, k, v)
       IN /\ Freq(Self, k) >= 1
          /\ Freq(Self, k) + 1 = Len(frequency_list)
          /\ r.stored
          /\ ~r.panic
          /\ r.self.current_size <= MaxCurrentSize

(* ---------------- C20 ---------------- *)

(* C20: in every reachable state each key occurs at most once in the whole *)
(* frequency_list: in at most one bucket and at most once in that bucket.  *)
C20_KeyListedAtMostOnce ==
  \A k \in Keys :
    LET listing == Flatten(frequency_list)
    IN Cardinality({i \in 1..Len(listing) : listing[i] = k}) <= 1

(* Two keys are listed, one of them promoted above bucket 0 by the gets    *)
(* that have returned it.                                                  *)
C20_Witness ==
  \E k1 \in got : \E k2 \in got \ {k1} :
    /\ Listed(Self, k1)
    /\ Listed(Self, k2)
    /\ Freq(Self, k1) >= 1

====
